---- MODULE Spec2Model ----
(***************************************************************************)
(* Local persistence and validated backup/restore of the squaredance app:  *)
(* the zod schemas (src/src/schemas/index.ts), the localStorage helpers    *)
(* (utils/local-storage.ts) and the backup codec (src/src/utils/backup.ts) *)
(* over the platform key-value store.                                      *)
(***************************************************************************)
EXTENDS Integers, Sequences, FiniteSets, Bags, TLC

(***************************************************************************)
(* JavaScript values.  Every value carries its type tag; an object is a    *)
(* function from property names to values.                                 *)
(***************************************************************************)
Undef == [t |-> "undefined"]
Null == [t |-> "null"]
Num(n) == [t |-> "number", v |-> n]
\* the number n + 1/2, which is not an integer
HalfPast(n) == [t |-> "number", v |-> n, half |-> TRUE]
Str(s) == [t |-> "string", v |-> s]
Bool(b) == [t |-> "boolean", v |-> b]
Obj(f) == [t |-> "object", v |-> f]

IsObj(x) == x.t = "object"
Has(x, key) == IsObj(x) /\ key \in DOMAIN x.v
Get(x, key) == IF Has(x, key) THEN x.v[key] ELSE Undef

\* an object restricted to the properties named in keys
Pick(x, keys) == Obj([key \in (DOMAIN x.v) \cap keys |-> x.v[key]])

(***************************************************************************)
(* JSON.stringify / JSON.parse.  A stored text is either the serialisation *)
(* of a JSON value or a text that is not JSON.  Serialising drops every    *)
(* property whose value is undefined; a top-level undefined serialises to  *)
(* undefined, which is no text.                                            *)
(***************************************************************************)
RECURSIVE ToJSON(_)
ToJSON(x) ==
  IF IsObj(x)
    THEN Obj([key \in {p \in DOMAIN x.v : x.v[p] # Undef} |-> ToJSON(x.v[key])])
    ELSE x

NoItem == [k |-> "absent"]
Raw(s) == [k |-> "raw", s |-> s]
JsonText(j) == [k |-> "json", v |-> j]
NoText == [k |-> "undefined"]

\* JSON.stringify throws TypeError on a BigInt
BigInt(n) == [t |-> "bigint", v |-> n]
StringifyThrows(x) == x.t = "bigint"
JSONstringify(x) == IF x = Undef THEN NoText ELSE JsonText(ToJSON(x))

\* JSON.parse throws SyntaxError on a text that is not JSON
ParseThrows(text) == text.k # "json"
JSONparse(text) == IF text.k = "json" THEN text.v ELSE Undef

\* a text used in a condition: null and the empty string are falsy
Falsy(text) == text = NoItem \/ text = Raw("")

\* deep equality that ignores properties holding undefined (expect().toEqual)
Equal(a, b) == ToJSON(a) = ToJSON(b)

(***************************************************************************)
(* Schemas.  A parse result is [ok, data]; z.object strips the properties  *)
(* the schema does not declare.                                            *)
(***************************************************************************)
Fail == [ok |-> FALSE, data |-> Undef]
Ok(x) == [ok |-> TRUE, data |-> x]

\* z.string().uuid(): the identifiers of UUID form
UUIDs == {"123e4567-e89b-12d3-a456-426614174000", "9b2f1c1e-5d3a-4c8e-8f1a-2b7c6d5e4f30"}

IsNum(x) == x.t = "number"
\* Number.isInteger
IsInt(x) == IsNum(x) /\ "half" \notin DOMAIN x
IsStr(x) == x.t = "string"
IsBool(x) == x.t = "boolean"

StatsKeys == {"totalSessions", "totalCalls", "successfulSequences", "failedSequences"}
PrefsKeys == {"autoPlayAnimations", "showFlowHints"}
ProfileKeys == {"id", "name", "createdAt", "stats", "preferences"}
BackupKeys == {"version", "timestamp", "user"}

\* z.number().int().min(0)
CounterOk(x) == IsInt(x) /\ x.v >= 0

UserStatsSchema(x) ==
  IF IsObj(x) /\ \A key \in StatsKeys : CounterOk(Get(x, key))
    THEN Ok(Pick(x, StatsKeys))
    ELSE Fail

\* z.boolean().optional()
OptBoolOk(x) == x = Undef \/ IsBool(x)

UserPreferencesSchema(x) ==
  IF IsObj(x) /\ \A key \in PrefsKeys : OptBoolOk(Get(x, key))
    THEN Ok(Pick(x, PrefsKeys))
    ELSE Fail

MinName == 1
MaxName == 20

\* a schema that keeps the properties it does not declare (.passthrough())
UserProfilePassthrough(x) ==
  IF /\ IsObj(x)
     /\ IsStr(Get(x, "id")) /\ Get(x, "id").v \in UUIDs
     /\ IsStr(Get(x, "name"))
     /\ Len(Get(x, "name").v) >= MinName /\ Len(Get(x, "name").v) <= MaxName
     /\ IsInt(Get(x, "createdAt")) /\ Get(x, "createdAt").v > 0
     /\ UserStatsSchema(Get(x, "stats")).ok
     /\ (Get(x, "preferences") = Undef \/ UserPreferencesSchema(Get(x, "preferences")).ok)
    THEN Ok(x)
    ELSE Fail

UserProfileSchema(x) ==
  IF /\ IsObj(x)
     /\ IsStr(Get(x, "id")) /\ Get(x, "id").v \in UUIDs
     /\ IsStr(Get(x, "name"))
     /\ Len(Get(x, "name").v) >= MinName /\ Len(Get(x, "name").v) <= MaxName
     /\ IsInt(Get(x, "createdAt")) /\ Get(x, "createdAt").v > 0
     /\ UserStatsSchema(Get(x, "stats")).ok
     /\ (Get(x, "preferences") = Undef \/ UserPreferencesSchema(Get(x, "preferences")).ok)
    THEN Ok(Obj([key \in (DOMAIN x.v) \cap ProfileKeys |->
                   CASE key = "stats" -> UserStatsSchema(x.v[key]).data
                     [] key = "preferences" ->
                          IF x.v[key] = Undef THEN Undef
                          ELSE UserPreferencesSchema(x.v[key]).data
                     [] OTHER -> x.v[key]]))
    ELSE Fail

\* UserProfileSchema.nullable()
UserProfileNullable(x) == IF x = Null THEN Ok(Null) ELSE UserProfileSchema(x)

BackupDataSchema(x) ==
  IF /\ IsObj(x)
     /\ IsStr(Get(x, "version"))
     /\ IsNum(Get(x, "timestamp"))
     /\ UserProfileNullable(Get(x, "user")).ok
    THEN Ok(Obj([key \in BackupKeys |->
                   IF key = "user" THEN UserProfileNullable(x.v[key]).data ELSE x.v[key]]))
    ELSE Fail

\* the schema of the storage tests: z.object({name: z.string(), value: z.number()})
TestSchema(x) ==
  IF IsObj(x) /\ IsStr(Get(x, "name")) /\ IsNum(Get(x, "value"))
    THEN Ok(Pick(x, {"name", "value"}))
    ELSE Fail

Schemas == {"UserProfile", "UserProfileNullable", "Test"}

SafeParse(schema, x) ==
  CASE schema = "UserProfile" -> UserProfileSchema(x)
    [] schema = "UserProfileNullable" -> UserProfileNullable(x)
    [] OTHER -> TestSchema(x)

(***************************************************************************)
(* The values the operations are applied to.                               *)
(***************************************************************************)
MkStats(a, b, c, d) ==
  Obj([totalSessions |-> Num(a), totalCalls |-> Num(b),
       successfulSequences |-> Num(c), failedSequences |-> Num(d)])

MkProfile(id, name, createdAt, stats) ==
  Obj([id |-> Str(id), name |-> Str(name), createdAt |-> Num(createdAt), stats |-> stats])

\* the object x with property key set to val ({...x, key: val})
With(x, key, val) ==
  Obj([p \in (DOMAIN x.v) \cup {key} |-> IF p = key THEN val ELSE x.v[p]])

Uuid1 == "123e4567-e89b-12d3-a456-426614174000"
Uuid2 == "9b2f1c1e-5d3a-4c8e-8f1a-2b7c6d5e4f30"
ZeroStats == MkStats(0, 0, 0, 0)

\* the profile of the backup tests
mockUser ==
  With(MkProfile(Uuid1, "TestUser", 7, MkStats(5, 100, 80, 20)), "preferences",
       Obj([autoPlayAnimations |-> Bool(TRUE), showFlowHints |-> Bool(FALSE)]))
\* a profile without preferences
Alice == MkProfile(Uuid2, "Alice", 3, ZeroStats)
\* a profile whose preferences object declares nothing
Bob == With(MkProfile(Uuid2, "Bob Smith-99_", 9, ZeroStats), "preferences", Obj(<<>>))
\* in memory only: a property that holds undefined
AliceUndefPrefs == With(Alice, "preferences", Undef)
\* profiles carrying properties the schema does not declare
AliceLegacy == With(Alice, "legacy", Str("v0"))
BobLegacyPrefs == With(Bob, "preferences", Obj([showFlowHints |-> Bool(TRUE), theme |-> Str("dark")]))

ValidProfiles == {mockUser, Alice, Bob, AliceLegacy, BobLegacyPrefs}

LongName == "aaaaaaaaaaaaaaaaaaaaa"

InvalidProfiles ==
  { With(Alice, "id", Str("not-a-uuid")),
    With(Alice, "name", Str(LongName)),
    With(Alice, "name", Str("")),
    With(Alice, "createdAt", Num(0)),
    With(Alice, "createdAt", HalfPast(1)),
    With(Alice, "stats", MkStats(0, -1, 0, 0)),
    With(Alice, "stats", With(ZeroStats, "totalCalls", HalfPast(0))),
    With(Alice, "preferences", Obj([showFlowHints |-> Str("yes")])),
    Obj([id |-> Str("not-a-uuid"), name |-> Str("Test")]) }

\* the data of the storage tests
TestData == Obj([name |-> Str("Test"), value |-> Num(42)])
TestDataInvalid == Obj([name |-> Str("Test"), value |-> Str("not-a-number")])

\* values that can be the content of a JSON text
JsonValues == ValidProfiles \cup InvalidProfiles \cup {Null, Num(42), TestData, TestDataInvalid}
\* values held in memory
JsValues == JsonValues \cup {AliceUndefPrefs, Undef, BigInt(1)}

(***************************************************************************)
(* The platform store (window.localStorage).  A call named in th throws    *)
(* (store disabled, quota exceeded) and then changes nothing.              *)
(***************************************************************************)
USER_PROFILE == "squaredance-user-profile"
STORAGE_KEYS == {USER_PROFILE}
TestKey == "test-key"
ProbeKey == "__localStorage_test__"
Keys == {USER_PROFILE, TestKey, ProbeKey}

PlatformCalls == {"getItem", "setItem", "removeItem"}

getItem(s, key) == s[key]
\* setItem stores the string conversion of its argument
setItem(s, key, text) == [s EXCEPT ![key] = IF text = NoText THEN Raw("undefined") ELSE text]
removeItem(s, key) == [s EXCEPT ![key] = NoItem]
clear == [key \in Keys |-> NoItem]

(***************************************************************************)
(* Key-value store adapter (utils/local-storage.ts).  Each operator gives  *)
(* the store after the call, the value returned and whether an exception   *)
(* reached the caller.                                                     *)
(***************************************************************************)
Outcome(s, ret, threw) == [store |-> s, ret |-> ret, threw |-> threw]

saveWithoutCatch(s, key, data, th) ==
  IF StringifyThrows(data) \/ "setItem" \in th
    THEN Outcome(s, Undef, TRUE)
    ELSE Outcome(setItem(s, key, JSONstringify(data)), Undef, FALSE)

\* setItem(key, data): the store keeps String(data)
saveWithoutStringify(s, key, data, th) ==
  IF "setItem" \in th
    THEN Outcome(s, Undef, FALSE)
    ELSE Outcome(setItem(s, key, Raw(IF IsObj(data) THEN "[object Object]" ELSE data.t)), Undef, FALSE)

saveToLocalStorage(s, key, data, th) ==
  IF StringifyThrows(data) \/ "setItem" \in th
    THEN Outcome(s, Undef, FALSE)
    ELSE Outcome(setItem(s, key, JSONstringify(data)), Undef, FALSE)

loadWithoutValidation(s, key, schema, th) ==
  IF "getItem" \in th THEN Outcome(s, Null, FALSE)
  ELSE LET json == getItem(s, key) IN
    IF Falsy(json) THEN Outcome(s, Null, FALSE)
    ELSE IF ParseThrows(json) THEN Outcome(s, Null, FALSE)
    ELSE Outcome(s, JSONparse(json), FALSE)

loadFromLocalStorage(s, key, schema, th) ==
  IF "getItem" \in th THEN Outcome(s, Null, FALSE)
  ELSE LET json == getItem(s, key) IN
    IF Falsy(json) THEN Outcome(s, Null, FALSE)
    ELSE IF ParseThrows(json) THEN Outcome(s, Null, FALSE)
    ELSE LET result == SafeParse(schema, JSONparse(json)) IN
      IF ~result.ok THEN Outcome(s, Null, FALSE)
      ELSE Outcome(s, result.data, FALSE)

removeByClear(s, key, th) ==
  IF "removeItem" \in th
    THEN Outcome(s, Undef, FALSE)
    ELSE Outcome(clear, Undef, FALSE)

removeFromLocalStorage(s, key, th) ==
  IF "removeItem" \in th
    THEN Outcome(s, Undef, FALSE)
    ELSE Outcome(removeItem(s, key), Undef, FALSE)

\* localStorage.clear() in place of the removal of the known keys
clearAllByClear(s, th) ==
  IF "removeItem" \in th
    THEN Outcome(s, Undef, FALSE)
    ELSE Outcome(clear, Undef, FALSE)

clearAllLocalStorage(s, th) ==
  IF "removeItem" \in th
    THEN Outcome(s, Undef, FALSE)
    ELSE Outcome([key \in Keys |-> IF key \in STORAGE_KEYS THEN NoItem ELSE s[key]], Undef, FALSE)

\* the probe written and never deleted
isAvailableWithoutRemove(s, th) ==
  IF "setItem" \in th THEN Outcome(s, Bool(FALSE), FALSE)
  ELSE Outcome(setItem(s, ProbeKey, Raw(ProbeKey)), Bool(TRUE), FALSE)

isLocalStorageAvailable(s, th) ==
  IF "setItem" \in th THEN Outcome(s, Bool(FALSE), FALSE)
  ELSE LET s1 == setItem(s, ProbeKey, Raw(ProbeKey)) IN
    IF "removeItem" \in th THEN Outcome(s1, Bool(FALSE), FALSE)
    ELSE Outcome(removeItem(s1, ProbeKey), Bool(TRUE), FALSE)

(***************************************************************************)
(* Backup codec (src/src/utils/backup.ts).                                 *)
(***************************************************************************)
BackupVersion == "1.0.0"
Envelope(version, timestamp, user) ==
  Obj([version |-> version, timestamp |-> timestamp, user |-> user])

exportBackupStrict(s, now, th) ==
  IF "getItem" \in th THEN Outcome(s, Undef, TRUE)
  ELSE LET userJson == getItem(s, USER_PROFILE) IN
    IF Falsy(userJson) THEN Outcome(s, Envelope(Str(BackupVersion), Num(now), Null), FALSE)
    ELSE IF ParseThrows(userJson) THEN Outcome(s, Undef, TRUE)
    ELSE LET r == UserProfileSchema(JSONparse(userJson)) IN
      Outcome(s, Envelope(Str(BackupVersion), Num(now), IF r.ok THEN r.data ELSE Null), FALSE)

\* no try/catch: an exception of getItem or JSON.parse reaches the caller
exportBackup(s, now, th) ==
  IF "getItem" \in th THEN Outcome(s, Undef, TRUE)
  ELSE LET userJson == getItem(s, USER_PROFILE) IN
    IF Falsy(userJson) THEN Outcome(s, Envelope(Str(BackupVersion), Num(now), Null), FALSE)
    ELSE IF ParseThrows(userJson) THEN Outcome(s, Undef, TRUE)
    ELSE Outcome(s, Envelope(Str(BackupVersion), Num(now), JSONparse(userJson)), FALSE)

\* a check of the envelope's three properties only
validateBackupShallow(data) ==
  IF IsObj(data) /\ BackupKeys \subseteq DOMAIN data.v THEN Pick(data, BackupKeys) ELSE Null

validateBackup(data) ==
  LET r == BackupDataSchema(data) IN IF r.ok THEN r.data ELSE Null

\* the try block of importBackup: every exception in it is caught and gives false
applyBackupKeepsOnNull(s, backup, th) ==
  IF Get(backup, "user") # Null
    THEN LET validUser == UserProfileSchema(Get(backup, "user")) IN
      IF ~validUser.ok \/ "setItem" \in th THEN Outcome(s, Bool(FALSE), FALSE)
      ELSE Outcome(setItem(s, USER_PROFILE, JSONstringify(validUser.data)), Bool(TRUE), FALSE)
    ELSE Outcome(s, Bool(TRUE), FALSE)

applyBackupStoresEnvelope(s, backup, th) ==
  IF Get(backup, "user") # Null
    THEN IF "setItem" \in th THEN Outcome(s, Bool(FALSE), FALSE)
      ELSE Outcome(setItem(s, USER_PROFILE, JSONstringify(backup)), Bool(TRUE), FALSE)
    ELSE IF "removeItem" \in th THEN Outcome(s, Bool(FALSE), FALSE)
      ELSE Outcome(removeItem(s, USER_PROFILE), Bool(TRUE), FALSE)

applyBackup(s, backup, th) ==
  IF Get(backup, "user") # Null
    THEN LET validUser == UserProfileSchema(Get(backup, "user")) IN
      IF ~validUser.ok \/ "setItem" \in th THEN Outcome(s, Bool(FALSE), FALSE)
      ELSE LET s1 == setItem(s, USER_PROFILE, JSONstringify(validUser.data)) IN
        \* the verification log reads the key back and parses it
        IF "getItem" \in th \/ Falsy(getItem(s1, USER_PROFILE))
           \/ ParseThrows(getItem(s1, USER_PROFILE))
          THEN Outcome(s1, Bool(FALSE), FALSE)
          ELSE Outcome(s1, Bool(TRUE), FALSE)
    ELSE IF "removeItem" \in th THEN Outcome(s, Bool(FALSE), FALSE)
      ELSE Outcome(removeItem(s, USER_PROFILE), Bool(TRUE), FALSE)

importBackupClearsOnInvalid(s, data, th) ==
  LET backup == validateBackup(data) IN
  IF backup = Null THEN Outcome(removeItem(s, USER_PROFILE), Bool(FALSE), FALSE)
  ELSE applyBackup(s, backup, th)

importBackup(s, data, th) ==
  LET backup == validateBackup(data) IN
  IF backup = Null THEN Outcome(s, Bool(FALSE), FALSE)
  ELSE applyBackup(s, backup, th)

\* a file is [readable, text]; text() rejects for an unreadable file
File(readable, text) == [readable |-> readable, text |-> text]
loadBackupFromFile(s, file) ==
  IF ~file.readable THEN Outcome(s, Null, FALSE)
  ELSE IF ParseThrows(file.text) THEN Outcome(s, Null, FALSE)
  ELSE Outcome(s, validateBackup(JSONparse(file.text)), FALSE)

(***************************************************************************)
(* Display names (WelcomeScreen.tsx, ProfileModal.tsx).  A name is a string;*)
(* Spelling gives its characters, which the pattern test and trim() read.  *)
(***************************************************************************)
Lower == {"a", "b", "c", "d", "e", "f", "g", "h", "i", "j", "k", "l", "m",
          "n", "o", "p", "q", "r", "s", "t", "u", "v", "w", "x", "y", "z"}
Upper == {"A", "B", "C", "D", "E", "F", "G", "H", "I", "J", "K", "L", "M",
          "N", "O", "P", "Q", "R", "S", "T", "U", "V", "W", "X", "Y", "Z"}
Digits == {"0", "1", "2", "3", "4", "5", "6", "7", "8", "9"}
\* the class \s of the pattern, which is also what trim() removes: the space
\* and the other white space characters (here the tab)
WhiteSpace == {" ", "\t"}

Name20 == "aaaaaaaaaaaaaaaaaaaa"
LongBang == "!aaaaaaaaaaaaaaaaaaaa"

Names == {"", "Bob", "Bob ", " Bob", "Bob!", " Bob!", "a\tb", "Bob Smith-99_",
          "Alice", "TestUser", Name20, LongName, LongBang}

Spelling(s) ==
  CASE s = "" -> <<>>
    [] s = "Bob" -> <<"B", "o", "b">>
    [] s = "Bob " -> <<"B", "o", "b", " ">>
    [] s = " Bob" -> <<" ", "B", "o", "b">>
    [] s = "Bob!" -> <<"B", "o", "b", "!">>
    [] s = " Bob!" -> <<" ", "B", "o", "b", "!">>
    [] s = "a\tb" -> <<"a", "\t", "b">>
    [] s = "Bob Smith-99_" ->
         <<"B", "o", "b", " ", "S", "m", "i", "t", "h", "-", "9", "9", "_">>
    [] s = "Alice" -> <<"A", "l", "i", "c", "e">>
    [] s = "TestUser" -> <<"T", "e", "s", "t", "U", "s", "e", "r">>
    [] s = Name20 -> [i \in 1..20 |-> "a"]
    [] s = LongName -> [i \in 1..21 |-> "a"]
    [] s = LongBang -> [i \in 1..21 |-> IF i = 1 THEN "!" ELSE "a"]

\* /^[a-zA-Z0-9\s_-]+$/.test(value)
NamePattern(value) ==
  LET cs == Spelling(value) IN
    /\ Len(cs) >= 1
    /\ \A i \in 1..Len(cs) : cs[i] \in Lower \cup Upper \cup Digits \cup WhiteSpace \cup {"_", "-"}

RECURSIVE TrimStart(_)
TrimStart(cs) ==
  IF cs # <<>> /\ Head(cs) \in WhiteSpace THEN TrimStart(Tail(cs)) ELSE cs

RECURSIVE TrimEnd(_)
TrimEnd(cs) ==
  IF cs # <<>> /\ cs[Len(cs)] \in WhiteSpace
    THEN TrimEnd(SubSeq(cs, 1, Len(cs) - 1))
    ELSE cs

\* the name spelled cs
Spelled(cs) ==
  CHOOSE n \in Names : Len(Spelling(n)) = Len(cs) /\ \A i \in 1..Len(cs) : Spelling(n)[i] = cs[i]

\* value.trim()
Trim(value) == Spelled(TrimEnd(TrimStart(Spelling(value))))

ErrRequired == Str("Name is required")
ErrLength == Str("Name must be 20 characters or less")
ErrPattern == Str("Only letters, numbers, spaces, dash (-), and underscore (_) allowed")
ErrTrim == Str("Name cannot start or end with spaces")

\* the welcome screen's check
validateName(value) ==
  IF value = "" THEN ErrRequired
  ELSE IF Len(value) > MaxName THEN ErrLength
  ELSE IF ~NamePattern(value) THEN ErrPattern
  ELSE IF value # Trim(value) THEN ErrTrim
  ELSE Null

\* the profile modal's check
modalValidateName(value) ==
  IF value = "" THEN ErrRequired
  ELSE IF Len(value) > MaxName THEN ErrLength
  ELSE IF ~NamePattern(value) THEN ErrPattern
  ELSE IF value # Trim(value) THEN ErrTrim
  ELSE Null

isValid(name) == validateName(name) = Null
modalIsValid(name) == modalValidateName(name) = Null
hasChanges(name, user) == Trim(name) # Get(user, "name").v

DefaultPreferences == Obj([autoPlayAnimations |-> Bool(TRUE), showFlowHints |-> Bool(TRUE)])

\* the profile built without trimming, with the clock not read
handleSubmitUnstamped(name, id, now) ==
  LET validationError == validateName(name) IN
    IF validationError # Null
      THEN [error |-> validationError, user |-> Undef]
      ELSE [error |-> Null,
            user |-> With(MkProfile(id, name, 0, ZeroStats), "preferences", DefaultPreferences)]

\* WelcomeScreen.handleSubmit: the error to show, and the profile handed to
\* onCreateProfile (undefined when the callback is not invoked)
handleSubmit(name, id, now) ==
  LET validationError == validateName(name) IN
    IF validationError # Null
      THEN [error |-> validationError, user |-> Undef]
      ELSE [error |-> Null,
            user |-> With(MkProfile(id, Trim(name), now, ZeroStats), "preferences", DefaultPreferences)]

\* a save that builds a fresh profile around the new name
handleSaveRebuildsProfile(user, name) ==
  LET validationError == modalValidateName(name) IN
    IF validationError # Null
      THEN [error |-> validationError, user |-> Undef]
      ELSE [error |-> Null,
            user |-> MkProfile(Get(user, "id").v, Trim(name), Get(user, "createdAt").v, ZeroStats)]

\* ProfileModal.handleSave: the error to show, and the profile handed to
\* onUpdate (undefined when the callback is not invoked)
handleSave(user, name) ==
  LET validationError == modalValidateName(name) IN
    IF validationError # Null
      THEN [error |-> validationError, user |-> Undef]
      ELSE [error |-> Null, user |-> With(user, "name", Str(Trim(name)))]

\* a save button that ignores whether the name changed
saveEnabledWhenValid(name, user) == modalIsValid(name)

\* the modal's submit button: disabled={!isValid || !hasChanges}
saveEnabled(name, user) == modalIsValid(name) /\ hasChanges(name, user)

(***************************************************************************)
(* State: the platform store, the last call made with its arguments, the   *)
(* store before it and its outcome, and the progress of an export / clear  *)
(* / import / load sequence.                                               *)
(***************************************************************************)
VARIABLES store, last, trip, app

vars == <<store, last, trip, app>>

MaxClock == 2
Clock == 1..MaxClock

Call(op, key, arg, schema, th, pre, out) ==
  [op |-> op, key |-> key, arg |-> arg, schema |-> schema, th |-> th,
   pre |-> pre, ret |-> out.ret, threw |-> out.threw]

\* trip.stage: "exported" -> "cleared" -> "imported" -> "reloaded" with E the
\* envelope exported, and "saved" -> "loaded" with E the value saved
NoTrip == [stage |-> "-", E |-> Undef]

\* inputs of validateBackup / importBackup
ValidEnvelopes == {Envelope(Str(BackupVersion), Num(1), u) : u \in ValidProfiles \cup {Null}}
    \cup {Envelope(Str("0.9"), HalfPast(1), Null)}
InvalidEnvelopes ==
  {Envelope(Str(BackupVersion), Num(1), u) : u \in InvalidProfiles \cup {Num(42)}}
  \cup { Obj([version |-> Str(BackupVersion)]),
         Obj([version |-> Str(BackupVersion), timestamp |-> Num(1)]),
         Envelope(Num(1), Num(1), Alice),
         Envelope(Str(BackupVersion), Str("now"), Null),
         Null }
BackupInputs == ValidEnvelopes \cup InvalidEnvelopes
    \cup {With(Envelope(Str(BackupVersion), Num(1), mockUser), "app", Str("squaredance"))}

Files == {File(FALSE, Raw(""))}
    \cup {File(TRUE, JSONstringify(e)) : e \in BackupInputs}
    \cup {File(TRUE, Raw("not valid json"))}

\* arguments of saveToLocalStorage
SaveInputs == ({USER_PROFILE} \X (ValidProfiles \cup {Null, AliceUndefPrefs, Undef, BigInt(1)}))
    \cup ({TestKey} \X {TestData, TestDataInvalid})

\* texts written to the store directly (localStorage.setItem in the tests)
ProfileTexts == {JSONstringify(x) : x \in ValidProfiles \cup {Null, With(Alice, "name", Str(LongName))}}
    \cup {Raw("not valid json"), Raw("")}
TestTexts == {JSONstringify(TestData), JSONstringify(TestDataInvalid),
              Raw("not valid json"), Raw("test-value")}
DirectStore == ({USER_PROFILE} \X ProfileTexts) \cup ({TestKey} \X TestTexts)
DirectBackup == ({USER_PROFILE} \X ProfileTexts) \cup {<<TestKey, Raw("test-value")>>}

\* the platform calls that throw during one call
ThrowChoices == {{}} \cup {{c} : c \in PlatformCalls} \cup {PlatformCalls}

\* the page before the first render: no component holds any state
Unloaded ==
  [page |-> "loading", savedUser |-> Null, effectPending |-> FALSE,
   showProfileModal |-> FALSE, name |-> "", error |-> Null, isDirty |-> FALSE,
   backupMessage |-> Null, timers |-> 0, fileInput |-> "", reading |-> EmptyBag]

Init ==
  /\ store = clear
  /\ last = Call("init", "-", Undef, "-", {}, clear, Outcome(clear, Undef, FALSE))
  /\ trip = NoTrip
  /\ app = Unloaded

DirectSetItem(inputs) ==
  \E in \in inputs :
    /\ store' = setItem(store, in[1], in[2])
    /\ last' = Call("setItem", in[1], Undef, "-", {}, store, Outcome(store', Undef, FALSE))
    /\ trip' = NoTrip
    /\ app' = app

DirectClear ==
  /\ store' = clear
  /\ last' = Call("clear", "-", Undef, "-", {}, store, Outcome(store', Undef, FALSE))
  /\ trip' = IF trip.stage = "exported" THEN [trip EXCEPT !.stage = "cleared"] ELSE NoTrip
  /\ app' = app

SaveToLocalStorage ==
  \E in \in SaveInputs, th \in SUBSET {"setItem"} :
    LET out == saveToLocalStorage(store, in[1], in[2], th) IN
    /\ store' = out.store
    /\ last' = Call("saveToLocalStorage", in[1], in[2], "-", th, store, out)
    /\ trip' = IF th = {} /\ ~StringifyThrows(in[2])
               THEN [stage |-> "saved", E |-> in[2]] ELSE NoTrip
    /\ app' = app

LoadFromLocalStorage ==
  \E key \in {USER_PROFILE, TestKey}, schema \in Schemas, th \in SUBSET {"getItem"} :
    LET out == loadFromLocalStorage(store, key, schema, th) IN
    /\ store' = out.store
    /\ last' = Call("loadFromLocalStorage", key, Undef, schema, th, store, out)
    /\ trip' = CASE trip.stage = "imported" /\ key = USER_PROFILE /\ th = {}
                      /\ schema \in {"UserProfile", "UserProfileNullable"}
                      -> [trip EXCEPT !.stage = "reloaded"]
                 [] trip.stage = "saved" /\ key = last.key /\ th = {}
                      -> [trip EXCEPT !.stage = "loaded"]
                 [] OTHER -> NoTrip
    /\ app' = app

RemoveFromLocalStorage ==
  \E key \in Keys, th \in SUBSET {"removeItem"} :
    LET out == removeFromLocalStorage(store, key, th) IN
    /\ store' = out.store
    /\ last' = Call("removeFromLocalStorage", key, Undef, "-", th, store, out)
    /\ trip' = NoTrip
    /\ app' = app

ClearAllLocalStorage ==
  \E th \in SUBSET {"removeItem"} :
    LET out == clearAllLocalStorage(store, th) IN
    /\ store' = out.store
    /\ last' = Call("clearAllLocalStorage", "-", Undef, "-", th, store, out)
    /\ trip' = NoTrip
    /\ app' = app

IsLocalStorageAvailable ==
  \E th \in SUBSET {"setItem", "removeItem"} :
    LET out == isLocalStorageAvailable(store, th) IN
    /\ store' = out.store
    /\ last' = Call("isLocalStorageAvailable", "-", Undef, "-", th, store, out)
    /\ trip' = NoTrip
    /\ app' = app

ExportBackup ==
  \E now \in Clock, th \in SUBSET {"getItem"} :
    LET out == exportBackup(store, now, th) IN
    /\ store' = out.store
    /\ last' = Call("exportBackup", "-", Undef, "-", th, store, out)
    /\ trip' = IF out.threw THEN NoTrip ELSE [stage |-> "exported", E |-> out.ret]
    /\ app' = app

ValidateBackup ==
  \E data \in BackupInputs :
    /\ store' = store
    /\ last' = Call("validateBackup", "-", data, "-", {}, store,
                    Outcome(store, validateBackup(data), FALSE))
    /\ trip' = NoTrip
    /\ app' = app

ImportBackup ==
  \E data \in BackupInputs \cup (IF trip.stage = "cleared" THEN {trip.E} ELSE {}),
     th \in ThrowChoices :
    LET out == importBackup(store, data, th) IN
    /\ store' = out.store
    /\ last' = Call("importBackup", "-", data, "-", th, store, out)
    /\ trip' = IF trip.stage = "cleared" /\ data = trip.E /\ out.ret = Bool(TRUE)
               THEN [trip EXCEPT !.stage = "imported"] ELSE NoTrip
    /\ app' = app

LoadBackupFromFile ==
  \E file \in Files :
    LET out == loadBackupFromFile(store, file) IN
    /\ store' = out.store
    /\ last' = Call("loadBackupFromFile", "-", file.text, "-", {}, store, out)
    /\ trip' = NoTrip
    /\ app' = app

\* the backup codec over the store
Next ==
  \/ DirectSetItem(DirectBackup)
  \/ DirectClear
  \/ LoadFromLocalStorage
  \/ ExportBackup
  \/ ValidateBackup
  \/ ImportBackup
  \/ LoadBackupFromFile

Spec == Init /\ [][Next]_vars

\* the store adapter over the store
NextStore ==
  \/ DirectSetItem(DirectStore)
  \/ DirectClear
  \/ SaveToLocalStorage
  \/ LoadFromLocalStorage
  \/ RemoveFromLocalStorage
  \/ ClearAllLocalStorage
  \/ IsLocalStorageAvailable

SpecStore == Init /\ [][NextStore]_vars

(***************************************************************************)
(* The application (App.tsx, useLocalStorage.ts, WelcomeScreen.tsx,        *)
(* ProfileModal.tsx).  app holds the state of the mounted components:      *)
(* savedUser is the state of the useLocalStorage binding, effectPending    *)
(* says that its effect has still to run after the last render, name /     *)
(* error / isDirty / backupMessage / fileInput belong to the form on       *)
(* screen (the welcome screen when there is no profile, else the profile   *)
(* modal when it is open), timers counts the pending message timeouts of   *)
(* that form and reading is the bag of backup files whose text() is awaited.*)
(* React runs the effect of a render before it handles the next event.     *)
(***************************************************************************)
MaxReads == 1
MaxTimers == 1

\* the names typed, as an <input maxLength={20}> can hold them
TypedNames == {n \in {"", "Bob", "Bob!", "a\tb", LongName} : Len(n) <= MaxName}

\* the identifiers uuidv4() gives
FreshIds == {Uuid2}

AppEnvelopes ==
  { Envelope(Str(BackupVersion), Num(1), With(Alice, "name", Str("Bob!"))),
    Envelope(Str(BackupVersion), Num(1), Null) }
AppFiles == {File(TRUE, JSONstringify(e)) : e \in AppEnvelopes}
    \cup {File(FALSE, Raw(""))}

WelcomeShown == app.page = "mounted" /\ app.savedUser = Null
MainShown == app.page = "mounted" /\ app.savedUser # Null
ModalShown == MainShown /\ app.showProfileModal
Idle == app.page = "mounted" /\ ~app.effectPending
\* <h1>Welcome back, {savedUser.name}!</h1>
Heading == Get(app.savedUser, "name")

\* the form on screen goes away: its state is lost, its pending reads go on
\* without a component to report to
Read(file, alive) == [file |-> file, alive |-> alive]
Orphaned(reading) ==
  LET files == {r.file : r \in BagToSet(reading)} IN
    [r \in {Read(f, FALSE) : f \in files} |->
       CopiesIn(Read(r.file, TRUE), reading) + CopiesIn(Read(r.file, FALSE), reading)]
FormGone(a) ==
  [a EXCEPT !.name = "", !.error = Null, !.isDirty = FALSE, !.backupMessage = Null,
            !.timers = 0, !.fileInput = "", !.reading = Orphaned(a.reading)]

UiCall(op, arg, th, ret) == Call(op, USER_PROFILE, arg, "-", th, store, Outcome(store', ret, FALSE))

\* first render of App: the binding's state is initialised from the store
\* a binding that starts from the default without looking at the store
MountIgnoresStore ==
  /\ app.page = "loading"
  /\ \E th \in SUBSET {"getItem"} :
       /\ store' = store
       /\ app' = [Unloaded EXCEPT !.page = "mounted", !.effectPending = TRUE]
       /\ last' = UiCall("useState", Undef, th, Null)
  /\ trip' = trip

Mount ==
  /\ app.page = "loading"
  /\ \E th \in SUBSET {"getItem"} :
       LET out == loadFromLocalStorage(store, USER_PROFILE, "UserProfileNullable", th)
           state == IF out.ret # Null THEN out.ret ELSE Null
       IN /\ store' = out.store
          /\ app' = [Unloaded EXCEPT !.page = "mounted", !.savedUser = state,
                                     !.effectPending = TRUE]
          /\ last' = UiCall("useState", Undef, th, state)
  /\ trip' = trip

\* an effect that forgets the write
UseEffectWithoutSave ==
  /\ app.page = "mounted" /\ app.effectPending
  /\ store' = store
  /\ last' = UiCall("useEffect", app.savedUser, {}, Undef)
  /\ app' = [app EXCEPT !.effectPending = FALSE]
  /\ trip' = trip

\* the effect of useLocalStorage, after the first render and after every
\* render in which the state changed (on a platform store that takes the
\* write; a write that throws is swallowed by saveToLocalStorage)
UseEffect ==
  /\ app.page = "mounted" /\ app.effectPending
  /\ LET out == saveToLocalStorage(store, USER_PROFILE, app.savedUser, {}) IN
       /\ store' = out.store
       /\ last' = UiCall("useEffect", app.savedUser, {}, out.ret)
  /\ app' = [app EXCEPT !.effectPending = FALSE]
  /\ trip' = trip

HandleNameChange ==
  /\ Idle /\ (WelcomeShown \/ ModalShown)
  /\ UNCHANGED <<store, trip>>
  /\ \E newValue \in TypedNames :
       /\ app' = [app EXCEPT !.name = newValue, !.isDirty = TRUE,
                             !.error = IF WelcomeShown THEN validateName(newValue)
                                       ELSE modalValidateName(newValue)]
       /\ last' = UiCall("handleNameChange", Str(newValue), {}, Undef)

\* the welcome form is submitted (its button is disabled={!isValid})
HandleSubmit ==
  /\ Idle /\ WelcomeShown /\ isValid(app.name)
  /\ UNCHANGED <<store, trip>>
  /\ \E id \in FreshIds, now \in Clock :
       LET r == handleSubmit(app.name, id, now) IN
       /\ app' = IF r.user = Undef
                   THEN [app EXCEPT !.error = r.error, !.isDirty = TRUE]
                   ELSE [FormGone(app) EXCEPT !.savedUser = r.user, !.effectPending = TRUE]
       /\ last' = UiCall("handleSubmit", Str(app.name), {}, r.user)

HandleOpenProfile ==
  /\ Idle /\ MainShown /\ ~app.showProfileModal
  /\ UNCHANGED <<store, trip>>
  /\ app' = [app EXCEPT !.showProfileModal = TRUE, !.name = Get(app.savedUser, "name").v]
  /\ last' = UiCall("handleOpenProfile", Undef, {}, Undef)

\* the modal form is submitted
HandleSave ==
  /\ Idle /\ ModalShown /\ saveEnabled(app.name, app.savedUser)
  /\ UNCHANGED <<store, trip>>
  /\ LET r == handleSave(app.savedUser, app.name) IN
       /\ app' = IF r.user = Undef
                   THEN [app EXCEPT !.error = r.error]
                   ELSE [FormGone(app) EXCEPT !.savedUser = r.user, !.effectPending = TRUE,
                                              !.showProfileModal = FALSE]
       /\ last' = UiCall("handleSave", Str(app.name), {}, r.user)

\* a close handler that leaves the modal open
HandleCloseKeepsOpen ==
  /\ Idle /\ ModalShown
  /\ UNCHANGED <<store, trip>>
  /\ \E control \in {"close", "cancel", "backdrop"} :
       last' = UiCall("onClose", Str(control), {}, Undef)
  /\ app' = app

\* the close button, the Cancel button and a click on the backdrop
HandleClose ==
  /\ Idle /\ ModalShown
  /\ UNCHANGED <<store, trip>>
  /\ \E control \in {"close", "cancel", "backdrop"} :
       last' = UiCall("onClose", Str(control), {}, Undef)
  /\ app' = [FormGone(app) EXCEPT !.showProfileModal = FALSE]

\* handleFileChange up to its await: a file is chosen and its text() requested
\* a file selection that drops the stored profile when the read starts
ChooseFileDropsProfile(files) ==
  /\ Idle /\ (WelcomeShown \/ ModalShown)
  /\ store' = removeItem(store, USER_PROFILE) /\ trip' = trip
  /\ BagCardinality(app.reading) < MaxReads
  /\ \E file \in files :
       /\ app' = [app EXCEPT !.fileInput = "chosen",
                             !.reading = @ (+) SetToBag({Read(file, TRUE)})]
       /\ last' = UiCall("handleFileChange", file.text, {}, Undef)

ChooseFile(files) ==
  /\ Idle /\ (WelcomeShown \/ ModalShown)
  /\ UNCHANGED <<store, trip>>
  /\ BagCardinality(app.reading) < MaxReads
  /\ \E file \in files :
       /\ app' = [app EXCEPT !.fileInput = "chosen",
                             !.reading = @ (+) SetToBag({Read(file, TRUE)})]
       /\ last' = UiCall("handleFileChange", file.text, {}, Undef)

HandleFileChange == ChooseFile(AppFiles)

\* setBackupMessage(m); setTimeout(() => setBackupMessage(null), 3000)
Message(a, alive, m) ==
  IF alive THEN [a EXCEPT !.backupMessage = Str(m), !.timers = @ + 1] ELSE a
\* fileInputRef.current.value = ''
ResetInput(a, alive) == IF alive THEN [a EXCEPT !.fileInput = ""] ELSE a

\* a restore that goes on with the running page
ReloadSkipped(a) == ResetInput(a, TRUE)
\* window.location.reload(): the page is loaded anew, every component state
\* of the running session is gone
Reload(a) == Unloaded

\* a restore that imports whatever the prompt's answer
restoreWithoutPrompt(backup, confirmed, out) ==
  IF backup = Null THEN "invalid"
  ELSE IF out.threw THEN "error"
  ELSE IF out.ret = Bool(TRUE) THEN "reload"
  ELSE "failed"

\* the path handleFileChange takes after its await: backup is what
\* loadBackupFromFile delivered, confirmed the answer to window.confirm, out
\* the outcome of importBackup(backup)
restoreOutcome(backup, confirmed, out) ==
  IF backup = Null THEN "invalid"
  ELSE IF ~confirmed THEN "cancelled"
  ELSE IF out.threw THEN "error"
  ELSE IF out.ret = Bool(TRUE) THEN "reload"
  ELSE "failed"

\* handleFileChange after its await, for the pending read r, the answer to
\* the prompt and the platform calls that throw (the answer and the throwing
\* calls are fixed where the path does not use them)
FileReadWith(r, confirmed, th) ==
  \E backup \in {loadBackupFromFile(store, r.file).ret} :
  LET a == [app EXCEPT !.reading = @ (-) SetToBag({r})]
      out == importBackup(store, backup, th)
  IN
  \E outcome \in {restoreOutcome(backup, confirmed, out)} :
    /\ outcome = "invalid" => (confirmed /\ th = {})
    /\ outcome = "cancelled" => th = {}
    /\ store' = IF outcome \in {"invalid", "cancelled"} THEN store ELSE out.store
    /\ app' = CASE outcome = "invalid" -> Message(a, r.alive, "Invalid backup file")
                [] outcome = "cancelled" -> ResetInput(a, r.alive)
                [] outcome = "error" ->
                     ResetInput(Message(a, r.alive, "Error reading backup file"), r.alive)
                [] outcome = "reload" -> Reload(a)
                [] OTHER ->
                     ResetInput(Message(a, r.alive, "Failed to restore backup"), r.alive)
    /\ last' = UiCall("restore", r.file.text, th, Str(outcome))
    /\ app'.timers <= MaxTimers

FileRead ==
  /\ Idle
  /\ \E r \in BagToSet(app.reading), confirmed \in BOOLEAN, th \in ThrowChoices :
       FileReadWith(r, confirmed, th)
  /\ trip' = trip

\* a timeout that leaves the message on the screen
TimeoutKeepsMessage ==
  /\ Idle /\ app.timers > 0
  /\ UNCHANGED <<store, trip>>
  /\ app' = [app EXCEPT !.timers = @ - 1]
  /\ last' = UiCall("setTimeout", Undef, {}, Undef)

\* a message timeout fires: setBackupMessage(null)
Timeout ==
  /\ Idle /\ app.timers > 0
  /\ UNCHANGED <<store, trip>>
  /\ app' = [app EXCEPT !.timers = @ - 1, !.backupMessage = Null]
  /\ last' = UiCall("setTimeout", Undef, {}, Undef)

NextApp ==
  \/ Mount
  \/ UseEffect
  \/ HandleNameChange
  \/ HandleSubmit
  \/ HandleOpenProfile
  \/ HandleSave
  \/ HandleClose
  \/ HandleFileChange
  \/ FileRead
  \/ Timeout

SpecApp == Init /\ [][NextApp]_vars

(***************************************************************************)
(* Properties of the backup codec (checked under Spec).                    *)
(***************************************************************************)
Imported == last.op = "importBackup"
EnvelopeUser == Get(last.arg, "user")
StoredProfile == store[USER_PROFILE]

\* C1: an input that fails envelope validation makes importBackup return
\* false, and the store after the call is the store before it
C1_InvalidImportIsNoOp ==
  (Imported /\ last.arg \in InvalidEnvelopes)
    => (last.ret = Bool(FALSE) /\ ~last.threw /\ store = last.pre)

C1_Witness ==
  /\ Imported
  /\ last.arg = Obj([version |-> Str(BackupVersion)])
  /\ last.pre[USER_PROFILE] = JSONstringify(mockUser)
  /\ last.ret = Bool(FALSE)
  /\ store = last.pre

\* C2: importBackup is all-or-nothing, also when a platform store call
\* throws: when it returns false the stored profile is what it was before the
\* call, and when it returns true the stored profile is the profile of the
\* envelope (as validated) or absent for a null user
C2_ImportAllOrNothing ==
  Imported =>
    /\ last.ret \in {Bool(TRUE), Bool(FALSE)}
    /\ last.ret = Bool(FALSE) => StoredProfile = last.pre[USER_PROFILE]
    /\ last.ret = Bool(TRUE) =>
         IF EnvelopeUser = Null THEN StoredProfile = NoItem
         ELSE /\ StoredProfile.k = "json"
              /\ StoredProfile.v = UserProfileSchema(EnvelopeUser).data

\* the value j has exactly the properties of x that the profile schema
\* declares, with the values x gives them
SameDeclared(j, x, keys) ==
  /\ IsObj(j)
  /\ DOMAIN j.v = (DOMAIN x.v) \cap keys
  /\ \A key \in DOMAIN j.v :
       CASE key = "stats" -> /\ IsObj(j.v[key])
                             /\ DOMAIN j.v[key].v = (DOMAIN x.v[key].v) \cap StatsKeys
                             /\ \A c \in DOMAIN j.v[key].v : j.v[key].v[c] = x.v[key].v[c]
         [] key = "preferences" -> /\ IsObj(j.v[key])
                                   /\ DOMAIN j.v[key].v = (DOMAIN x.v[key].v) \cap PrefsKeys
                                   /\ \A c \in DOMAIN j.v[key].v : j.v[key].v[c] = x.v[key].v[c]
         [] OTHER -> j.v[key] = x.v[key]

RoundTripDone ==
  /\ trip.stage = "reloaded"
  /\ Get(trip.E, "user") # Null
  /\ UserProfileSchema(Get(trip.E, "user")).ok

\* C4 as stated: after export, clear, import and load, the loaded profile
\* equals the profile P that was stored
C4_RoundTripExact ==
  RoundTripDone => Equal(last.ret, Get(trip.E, "user"))

\* C4 amended: after export, clear, import and load, the loaded profile is P
\* restricted to the properties the profile schema declares (equal to P when
\* P has no other property)
C4_RoundTripDeclared ==
  RoundTripDone =>
    /\ SameDeclared(last.ret, Get(trip.E, "user"), ProfileKeys)
    /\ (Get(trip.E, "user") \in {mockUser, Alice, Bob} => last.ret = Get(trip.E, "user"))

C4_Witness ==
  /\ RoundTripDone
  /\ Get(trip.E, "user") = mockUser
  /\ last.op = "loadFromLocalStorage"
  /\ last.ret = mockUser

Exported == last.op = "exportBackup" /\ ~last.threw

\* C5: the envelope exportBackup returns has version '1.0.0'; its user is
\* null when the profile key is absent and otherwise the JSON value stored
\* under the profile key, not validated against the profile schema
C5_ExportPassesThrough ==
  Exported =>
    /\ DOMAIN last.ret.v = BackupKeys
    /\ Get(last.ret, "version") = Str("1.0.0")
    /\ Get(last.ret, "timestamp").t = "number"
    /\ last.pre[USER_PROFILE] = NoItem => Get(last.ret, "user") = Null
    /\ last.pre[USER_PROFILE].k = "json" => Get(last.ret, "user") = last.pre[USER_PROFILE].v
    /\ store = last.pre

C5_Witness ==
  /\ Exported
  /\ last.pre[USER_PROFILE] = JsonText(With(Alice, "name", Str(LongName)))
  /\ Get(last.ret, "user") = With(Alice, "name", Str(LongName))

CodecOps == {"exportBackup", "validateBackup", "importBackup", "loadBackupFromFile"}

\* C6: no operation of the backup codec lets an exception reach its caller,
\* whatever the store holds, and exportBackup always returns an envelope
C6_CodecNeverThrows ==
  last.op \in CodecOps =>
    /\ ~last.threw
    /\ last.op = "exportBackup" => Has(last.ret, "version")

(***************************************************************************)
(* Properties of the store adapter (checked under SpecStore).              *)
(***************************************************************************)
Loaded == last.op = "loadFromLocalStorage"
Saved == last.op = "saveToLocalStorage"
Removed == last.op = "removeFromLocalStorage"

\* the values each schema accepts, and the properties it declares
AcceptedBy(schema) ==
  CASE schema = "UserProfile" -> ValidProfiles
    [] schema = "UserProfileNullable" -> ValidProfiles \cup {Null}
    [] OTHER -> {TestData}
DeclaredBy(schema) == IF schema = "Test" THEN {"name", "value"} ELSE ProfileKeys

\* C7: loadFromLocalStorage returns null when the key is absent, when the
\* stored text is not JSON and when the parsed value fails the schema, and
\* otherwise the validated value; it never returns a value failing the schema
C7_LoadValidates ==
  Loaded =>
    LET text == last.pre[last.key] IN
    /\ ~last.threw
    /\ store = last.pre
    /\ last.ret # Null => SafeParse(last.schema, last.ret).ok
    /\ last.th = {} =>
         /\ text = NoItem => last.ret = Null
         /\ text.k = "raw" => last.ret = Null
         /\ (text.k = "json" /\ text.v \notin AcceptedBy(last.schema)) => last.ret = Null
         /\ (text.k = "json" /\ text.v \in AcceptedBy(last.schema)) =>
              IF text.v = Null THEN last.ret = Null
              ELSE SameDeclared(last.ret, text.v, DeclaredBy(last.schema))

C7_Witness ==
  /\ Loaded /\ last.th = {} /\ last.key = USER_PROFILE /\ last.schema = "UserProfile"
  /\ last.pre[USER_PROFILE] = JsonText(mockUser)
  /\ last.ret = mockUser

SaveSucceeded == Saved /\ trip.stage = "saved"
SavedThenLoaded == Loaded /\ trip.stage = "loaded"
AcceptedSomewhere(x) == \E schema \in Schemas : SafeParse(schema, x).ok

\* C8 as stated: after a successful save of a value v that schema S accepts,
\* the text under the key parses to v and loading the key with S returns a
\* value equal to v
C8_SaveLoadExact ==
  /\ (SaveSucceeded /\ AcceptedSomewhere(last.arg)) =>
        /\ store[last.key].k = "json"
        /\ Equal(JSONparse(store[last.key]), last.arg)
  /\ (SavedThenLoaded /\ SafeParse(last.schema, trip.E).ok) => Equal(last.ret, trip.E)

\* C8 amended: after a successful save of a value v that schema S accepts,
\* the text under the key parses to v and loading the key with S returns v
\* restricted to the properties S declares (equal to v when v has no other)
C8_SaveLoadDeclared ==
  /\ (SaveSucceeded /\ AcceptedSomewhere(last.arg)) =>
        /\ store[last.key].k = "json"
        /\ Equal(JSONparse(store[last.key]), last.arg)
  /\ (SavedThenLoaded /\ SafeParse(last.schema, trip.E).ok) =>
        /\ IF trip.E = Null THEN last.ret = Null
           ELSE SameDeclared(last.ret, ToJSON(trip.E), DeclaredBy(last.schema))
        /\ trip.E \in {mockUser, Alice, Bob, AliceUndefPrefs, TestData} => Equal(last.ret, trip.E)

C8_Witness ==
  /\ SavedThenLoaded
  /\ last.key = USER_PROFILE /\ last.schema = "UserProfileNullable"
  /\ trip.E = mockUser
  /\ last.ret = mockUser

AdapterOps == {"saveToLocalStorage", "loadFromLocalStorage", "removeFromLocalStorage",
               "clearAllLocalStorage", "isLocalStorageAvailable"}

\* C9: no operation of the store adapter lets an exception reach its caller
\* when the platform store throws, and a save that fails leaves the store as
\* it was
C9_AdapterNeverThrows ==
  last.op \in AdapterOps =>
    /\ ~last.threw
    /\ (Saved /\ (last.th # {} \/ StringifyThrows(last.arg))) => store = last.pre

C9_Witness ==
  /\ Saved /\ last.th = {"setItem"} /\ ~last.threw
  /\ last.key = USER_PROFILE /\ last.arg = Alice
  /\ last.pre[USER_PROFILE] = JsonText(mockUser)
  /\ store[USER_PROFILE] = JsonText(mockUser)

\* C10: removeFromLocalStorage(k) on a working store raises no error, leaves
\* k absent whether or not it was present, leaves every other key as it was,
\* and applied a second time changes nothing
C10_RemoveIdempotent ==
  [][(last'.op = "removeFromLocalStorage" /\ last'.th = {}) =>
       /\ ~last'.threw
       /\ store'[last'.key] = NoItem
       /\ \A key \in Keys \ {last'.key} : store'[key] = store[key]
       /\ (Removed /\ last.th = {} /\ last.key = last'.key) => store' = store]_vars

C10_Witness ==
  /\ Removed /\ last.th = {} /\ last.key = USER_PROFILE
  /\ last.pre[USER_PROFILE] = JsonText(mockUser)
  /\ store[USER_PROFILE] = NoItem
  /\ store[TestKey] = JsonText(TestData)

ClearedAll == last.op = "clearAllLocalStorage"

\* C11: clearAllLocalStorage on a working store removes every key listed in
\* STORAGE_KEYS and leaves every other key with its value
C11_ClearAllKnownKeysOnly ==
  (ClearedAll /\ last.th = {}) =>
    /\ ~last.threw
    /\ \A key \in STORAGE_KEYS : store[key] = NoItem
    /\ \A key \in Keys \ STORAGE_KEYS : store[key] = last.pre[key]

C11_Witness ==
  /\ ClearedAll /\ last.th = {}
  /\ last.pre[USER_PROFILE] = JsonText(mockUser)
  /\ last.pre[TestKey] = Raw("test-value")
  /\ store[USER_PROFILE] = NoItem
  /\ store[TestKey] = Raw("test-value")

Probed == last.op = "isLocalStorageAvailable"

\* C12 as stated: isLocalStorageAvailable never throws, returns true exactly
\* when the probe write and the probe delete both succeed, and when it returns
\* true the store is the store before the call
C12_ProbeLeavesStoreAsBefore ==
  Probed =>
    /\ ~last.threw
    /\ last.ret = Bool(last.th \cap {"setItem", "removeItem"} = {})
    /\ last.ret = Bool(TRUE) => store = last.pre

\* C12 amended: isLocalStorageAvailable never throws, returns true exactly
\* when the probe write and the probe delete both succeed, and when it returns
\* true the probe key is absent and every other key is as before the call
\* (so the store is as before whenever the probe key was absent before)
C12_ProbeRemovesProbeKey ==
  Probed =>
    /\ ~last.threw
    /\ last.ret = Bool(last.th \cap {"setItem", "removeItem"} = {})
    /\ last.ret = Bool(TRUE) =>
         /\ store[ProbeKey] = NoItem
         /\ \A key \in Keys \ {ProbeKey} : store[key] = last.pre[key]
         /\ last.pre[ProbeKey] = NoItem => store = last.pre

C12_Witness ==
  /\ Probed /\ last.th = {} /\ last.ret = Bool(TRUE)
  /\ last.pre[ProbeKey] = Raw(ProbeKey)
  /\ last.pre[USER_PROFILE] = JsonText(mockUser)
  /\ store[ProbeKey] = NoItem
  /\ store[USER_PROFILE] = JsonText(mockUser)

(***************************************************************************)
(* Properties of the application (checked under SpecApp).                  *)
(***************************************************************************)
\* a name as the data model describes it: 1 to 20 characters, each a letter,
\* a digit, a space, a hyphen or an underscore, no white space at either end
SpecifiedChars == Lower \cup Upper \cup Digits \cup {" ", "-", "_"}
NameAsSpecified(s) ==
  LET cs == Spelling(s) IN
    /\ Len(cs) >= MinName /\ Len(cs) <= MaxName
    /\ \A i \in 1..Len(cs) : cs[i] \in SpecifiedChars
    /\ cs[1] \notin WhiteSpace /\ cs[Len(cs)] \notin WhiteSpace

HoldsProfile(text) == text.k = "json" /\ UserProfileSchema(text.v).ok

\* C13: whenever the profile key holds a profile, its name has 1 to 20
\* characters, only letters, digits, spaces, hyphen and underscore, and no
\* white space at either end
C13_StoredNameWellFormed ==
  HoldsProfile(store[USER_PROFILE]) =>
    NameAsSpecified(Get(store[USER_PROFILE].v, "name").v)

Created == last.op = "handleSubmit" /\ last.ret # Undef
Edited == last.op = "handleSave" /\ last.ret # Undef

\* C14: a name edit saved through the profile modal hands onUpdate the
\* current profile with only the name replaced (same id, createdAt, stats and
\* preferences), that profile becomes the binding's value, and the effect
\* that follows stores it
C14_EditChangesOnlyName ==
  [][ /\ HandleSave =>
           /\ Edited'
           /\ \A key \in ProfileKeys \ {"name"} :
                Get(last'.ret, key) = Get(app.savedUser, key)
           /\ DOMAIN last'.ret.v = DOMAIN app.savedUser.v
           /\ Get(last'.ret, "name") = Str(Trim(app.name))
           /\ app'.savedUser = last'.ret
      /\ (Edited /\ UseEffect) =>
           /\ HoldsProfile(store'[USER_PROFILE])
           /\ Equal(store'[USER_PROFILE].v, last.ret)
    ]_vars

C14_Witness ==
  /\ Edited /\ app.savedUser = last.ret
  /\ last.arg = Str("Bob")
  /\ app.savedUser = With(Alice, "name", Str("Bob"))
  /\ store[USER_PROFILE] = JsonText(With(Alice, "name", Str("Bob!")))

SetterInvoked == Created \/ Edited

Validated == last.op = "validateBackup"

\* a profile as the data model describes it
ProfileAsSpecified(u) ==
  /\ IsObj(u)
  /\ IsStr(Get(u, "id")) /\ Get(u, "id").v \in UUIDs
  /\ IsStr(Get(u, "name"))
  /\ Len(Get(u, "name").v) \in MinName..MaxName
  /\ IsInt(Get(u, "createdAt")) /\ Get(u, "createdAt").v > 0
  /\ IsObj(Get(u, "stats"))
  /\ \A c \in StatsKeys : IsInt(Get(Get(u, "stats"), c)) /\ Get(Get(u, "stats"), c).v >= 0
  /\ \/ Get(u, "preferences") = Undef
     \/ /\ IsObj(Get(u, "preferences"))
        /\ \A c \in PrefsKeys :
             Get(Get(u, "preferences"), c) = Undef \/ IsBool(Get(Get(u, "preferences"), c))

EnvelopeAsSpecified(x) ==
  /\ IsObj(x)
  /\ IsStr(Get(x, "version"))
  /\ IsNum(Get(x, "timestamp"))
  /\ Get(x, "user") = Null \/ ProfileAsSpecified(Get(x, "user"))

\* C16: validateBackup returns an envelope exactly when the input has a
\* string version, a numeric timestamp and a user that is null or a profile
\* with a UUID id, a name of 1 to 20 characters, a positive integer createdAt,
\* four integer counters >= 0 and optional boolean preferences; otherwise it
\* returns null; what it returns is itself such an envelope, with all three
\* properties
C16_ValidateBackupExactly ==
  Validated =>
    /\ ~last.threw /\ store = last.pre
    /\ (last.ret # Null) <=> EnvelopeAsSpecified(last.arg)
    /\ last.ret # Null =>
         /\ DOMAIN last.ret.v = BackupKeys
         /\ EnvelopeAsSpecified(last.ret)

C16_Witness ==
  /\ Validated
  /\ last.arg = Envelope(Str(BackupVersion), Num(1), mockUser)
  /\ last.ret = last.arg

C16_WitnessRejected ==
  /\ Validated
  /\ last.arg = Envelope(Str(BackupVersion), Num(1), With(Alice, "createdAt", HalfPast(1)))
  /\ last.ret = Null

LoadedProfile ==
  /\ Loaded /\ last.key = USER_PROFILE /\ last.schema = "UserProfile" /\ last.th = {}
  /\ last.pre[USER_PROFILE].k = "json"
  /\ UserProfileSchema(last.pre[USER_PROFILE].v).ok

\* the profiles of the value universe that have declared properties only
PlainProfiles == {mockUser, Alice, Bob}

\* C17 as stated: validating the JSON serialisation of a valid profile P
\* returns a value equal to P, and validateBackup of an envelope
\* {version, timestamp, user: P or null} returns a value equal to the envelope
C17_ValidationRoundTripExact ==
  /\ LoadedProfile => Equal(last.ret, last.pre[USER_PROFILE].v)
  /\ (Validated /\ EnvelopeAsSpecified(last.arg) /\ DOMAIN last.arg.v = BackupKeys) =>
        Equal(last.ret, last.arg)

\* C17 amended: validating the JSON serialisation of a valid profile P
\* returns P restricted to the declared properties, and validateBackup of an
\* envelope {version, timestamp, user: P or null} returns the envelope with
\* its user so restricted; both are equal to the input when P has no
\* undeclared property
C17_ValidationRoundTripDeclared ==
  /\ LoadedProfile =>
        LET P == last.pre[USER_PROFILE].v IN
        /\ SameDeclared(last.ret, P, ProfileKeys)
        /\ P \in PlainProfiles => Equal(last.ret, P)
  /\ (Validated /\ EnvelopeAsSpecified(last.arg) /\ DOMAIN last.arg.v = BackupKeys) =>
        LET P == Get(last.arg, "user") IN
        /\ IsObj(last.ret) /\ DOMAIN last.ret.v = BackupKeys
        /\ Get(last.ret, "version") = Get(last.arg, "version")
        /\ Get(last.ret, "timestamp") = Get(last.arg, "timestamp")
        /\ IF P = Null THEN Get(last.ret, "user") = Null
           ELSE SameDeclared(Get(last.ret, "user"), P, ProfileKeys)
        /\ P \in PlainProfiles \cup {Null} => Equal(last.ret, last.arg)

C17_Witness ==
  /\ Validated
  /\ last.arg = Envelope(Str(BackupVersion), Num(1), BobLegacyPrefs)
  /\ Get(last.ret, "user") = With(Bob, "preferences", Obj([showFlowHints |-> Bool(TRUE)]))

(***************************************************************************)
(* Properties of the forms (checked under SpecApp).                        *)
(***************************************************************************)
FormShown == WelcomeShown \/ ModalShown

\* the check as C18 describes it: the first failing rule among required,
\* length, character set (letters, digits, spaces, hyphen, underscore), trim
CheckAsSpecified(value) ==
  LET cs == Spelling(value) IN
  IF Len(cs) = 0 THEN ErrRequired
  ELSE IF Len(cs) > MaxName THEN ErrLength
  ELSE IF \E i \in 1..Len(cs) : cs[i] \notin SpecifiedChars THEN ErrPattern
  ELSE IF cs[1] \in WhiteSpace \/ cs[Len(cs)] \in WhiteSpace THEN ErrTrim
  ELSE Null

\* C18: the welcome screen and the profile modal make the same check of the
\* name in the field; it accepts exactly the names of 1 to 20 letters, digits,
\* spaces, hyphens and underscores without white space at either end, and
\* otherwise reports the first failing rule in the order required, length,
\* character set, trim
C18_NameCheckAsSpecified ==
  FormShown =>
    /\ validateName(app.name) = modalValidateName(app.name)
    /\ validateName(app.name) = CheckAsSpecified(app.name)
    /\ app.isDirty => app.error = CheckAsSpecified(app.name)

\* the names the forms' check passes: 1 to 20 letters, digits, white space
\* characters, hyphens and underscores, without white space at either end
PassesNameCheck(s) ==
  LET cs == Spelling(s) IN
    /\ Len(cs) >= MinName /\ Len(cs) <= MaxName
    /\ \A i \in 1..Len(cs) :
         cs[i] \in Lower \cup Upper \cup Digits \cup WhiteSpace \cup {"-", "_"}
    /\ cs[1] \notin WhiteSpace /\ cs[Len(cs)] \notin WhiteSpace

\* C19: the welcome form can be submitted exactly when the name in the field
\* passes the name check, every submission invokes onCreateProfile, and the
\* profile handed over has the entered name, four counters at 0, a positive
\* createdAt and a UUID id, and is a value the UserProfile schema accepts
\* unchanged
C19_SubmitCreatesValidProfile ==
  /\ (WelcomeShown /\ Idle) => (isValid(app.name) <=> PassesNameCheck(app.name))
  /\ last.op = "handleSubmit" =>
       /\ Created
       /\ PassesNameCheck(last.arg.v)
       /\ Get(last.ret, "name") = last.arg
       /\ Get(last.ret, "stats") = ZeroStats
       /\ IsInt(Get(last.ret, "createdAt")) /\ Get(last.ret, "createdAt").v > 0
       /\ IsStr(Get(last.ret, "id")) /\ Get(last.ret, "id").v \in UUIDs
       /\ UserProfileSchema(last.ret) = Ok(last.ret)
       /\ app.savedUser = last.ret

C19_Witness ==
  /\ Created /\ last.arg = Str("Bob")
  /\ app.savedUser = last.ret
  /\ Get(app.savedUser, "name") = Str("Bob")
  /\ MainShown /\ app.effectPending
  /\ ~HoldsProfile(store[USER_PROFILE])

\* C20: in the profile modal saving is enabled exactly when the name in the
\* field passes the name check and its trimmed value differs from the
\* profile's name; onUpdate is invoked only by a save made in such a state;
\* the close button, Cancel and a click on the backdrop close the modal
\* without a new profile, a pending write or a change of the store
C20_SaveOnlyWhenValidAndChanged ==
  [][ /\ (ModalShown /\ Idle) =>
           (saveEnabled(app.name, app.savedUser) <=>
              /\ PassesNameCheck(app.name)
              /\ Trim(app.name) # Get(app.savedUser, "name").v)
      /\ (ModalShown /\ app'.savedUser # app.savedUser /\ app'.page = "mounted") =>
           /\ Edited' /\ app'.savedUser = last'.ret
           /\ PassesNameCheck(app.name)
           /\ Trim(app.name) # Get(app.savedUser, "name").v
      /\ last'.op = "handleSave" => (ModalShown /\ last'.arg = Str(app.name))
      /\ HandleClose =>
           /\ last'.op = "onClose"
           /\ ~app'.showProfileModal
           /\ app'.savedUser = app.savedUser
           /\ ~app'.effectPending
           /\ store' = store
    ]_vars

C20_Witness ==
  /\ last.op = "onClose" /\ last.arg = Str("backdrop")
  /\ MainShown /\ ~app.showProfileModal /\ ~app.effectPending
  /\ store = last.pre
  /\ store[USER_PROFILE] = JSONstringify(app.savedUser)


(***************************************************************************)
(* C21: the screens of App                                                 *)
(***************************************************************************)
\* C21: on the mounted page the welcome screen is shown exactly when the
\* binding holds no profile and the main screen exactly when it holds one;
\* the modal flag is set only while a profile is held, is raised only by the
\* profile button, which shows the modal, and the close controls hide it and
\* leave the main screen; a profile created from the welcome screen is held
\* by the binding, the main screen is shown and its heading carries the
\* profile's name, the name that was entered
C21_ScreensFollowProfile ==
  [][ /\ app'.page = "mounted" =>
           \A holdsProfile \in {ProfileAsSpecified(app'.savedUser)} :
             /\ WelcomeShown' <=> ~holdsProfile
             /\ MainShown' <=> holdsProfile
             /\ WelcomeShown' <=> ~MainShown'
      /\ app'.showProfileModal => MainShown'
      /\ (~app.showProfileModal /\ app'.showProfileModal) =>
           (last'.op = "handleOpenProfile" /\ MainShown)
      /\ (last'.op = "handleOpenProfile" /\ HandleOpenProfile) => ModalShown'
      /\ (last'.op = "onClose" /\ HandleClose) => (~ModalShown' /\ MainShown')
      /\ Created' =>
           /\ WelcomeShown /\ MainShown' /\ ~app'.showProfileModal
           /\ app'.savedUser = last'.ret
           /\ Heading' = Get(last'.ret, "name")
           /\ Heading' = Str(Trim(app.name))
    ]_vars

C21_Witness ==
  /\ Created /\ MainShown /\ ~app.showProfileModal
  /\ Heading = Str("Bob")
  /\ last.arg = Str("Bob")


(***************************************************************************)
(* The application started on a store that already holds something: the    *)
(* binding's first render and effect, the profile modal's backup buttons   *)
(* and the restore flow of both forms (no name editing).                   *)
(***************************************************************************)
\* texts found under the profile key when the page loads: two valid
\* profiles (one with a property the schema does not declare), null, a
\* profile failing the schema and a text that is not JSON
StoredTexts ==
  {JSONstringify(x) : x \in {mockUser, AliceLegacy, Null, With(Alice, "name", Str(LongName))}}
    \cup {Raw("not valid json")}
DirectProfile == {USER_PROFILE} \X StoredTexts

\* the store is filled before the page is loaded
StoreBeforeLoad == app.page = "loading" /\ DirectSetItem(DirectProfile)

MsgDownloaded == "Backup downloaded successfully!"
MsgDownloadFailed == "Failed to download backup"

\* the modal's download button
HandleDownloadBackup ==
  /\ Idle /\ ModalShown
  /\ \E now \in Clock, th \in SUBSET {"getItem"} :
       LET out == exportBackup(store, now, th) IN
       /\ store' = out.store
       /\ app' = Message(app, TRUE, IF out.threw THEN MsgDownloadFailed ELSE MsgDownloaded)
       /\ last' = UiCall("handleDownloadBackup", Undef, th, out.ret)
  /\ app'.timers <= MaxTimers
  /\ trip' = trip

\* files chosen in the restore flows: the application's, a readable file
\* that is not JSON and one whose JSON is not an envelope
RestoreFiles ==
  AppFiles \cup {File(TRUE, Raw("not valid json")),
                 File(TRUE, JSONstringify(Obj([version |-> Str(BackupVersion)])))}
HandleBackupFile == ChooseFile(RestoreFiles)

NextRestore ==
  \/ StoreBeforeLoad
  \/ Mount
  \/ UseEffect
  \/ HandleOpenProfile
  \/ HandleClose
  \/ HandleDownloadBackup
  \/ HandleBackupFile
  \/ FileRead
  \/ Timeout

SpecRestore == Init /\ [][NextRestore]_vars

\* the browser's timers fire: a timeout that is due is eventually run
SpecRestoreFair == SpecRestore /\ WF_vars(Timeout)

(***************************************************************************)
(* C22, C23: the binding's first render                                    *)
(***************************************************************************)
FirstRendered == last.op = "useState"

C22_WitnessDefault ==
  /\ FirstRendered /\ last.th = {}
  /\ last.pre[USER_PROFILE] = JSONstringify(With(Alice, "name", Str(LongName)))
  /\ app.savedUser = Null

\* C23 as stated: the binding's initialisation, the first render and the
\* effect that follows it, writes nothing: the store after it is the store
\* before it
C23_MountWritesNothing ==
  [][ /\ Mount => store' = store
      /\ (FirstRendered /\ UseEffect) => store' = store
    ]_vars

\* the first effect has replaced a stored profile that failed the schema
C23_MountReplacedStoredText ==
  /\ last.op = "useEffect" /\ last.arg = Null
  /\ last.pre[USER_PROFILE] = JSONstringify(With(Alice, "name", Str(LongName)))
  /\ store[USER_PROFILE] = JSONstringify(Null)


(***************************************************************************)
(* C24..C28: the restore flows                                             *)
(***************************************************************************)
RestoredOk == last.op = "restore" /\ last.ret = Str("reload")
\* the user of the envelope in the file the restore read
FileUser == Get(last.arg.v, "user")

RestoreStep == last'.op = "restore"
ImportCalled == RestoreStep /\ last'.ret \in {Str("reload"), Str("failed"), Str("error")}
\* the text of the chosen file is JSON for a valid envelope
FileHoldsEnvelope(text) == text.k = "json" /\ EnvelopeAsSpecified(text.v)

\* C25: a step of either restore flow in which importBackup is called (or
\* the store changes, the page reloads) is a step for a file whose text is a
\* valid envelope and with the prompt accepted: no such step is possible
\* with the prompt declined; the step taken when the user declines leaves
\* the store, the page, the message and its timers as they were
C25_ImportOnlyValidAndConfirmed ==
  [][ /\ (RestoreStep /\ (ImportCalled \/ store' # store \/ app'.page # "mounted")) =>
           /\ ImportCalled
           /\ FileHoldsEnvelope(last'.arg)
           /\ \E r \in BagToSet(app.reading), th \in ThrowChoices : FileReadWith(r, TRUE, th)
           /\ \A r \in BagToSet(app.reading), th \in ThrowChoices : ~FileReadWith(r, FALSE, th)
      /\ \A r \in BagToSet(app.reading), th \in ThrowChoices :
           (RestoreStep /\ Idle /\ FileReadWith(r, FALSE, th)) =>
             /\ last'.ret = Str("cancelled")
             /\ FileHoldsEnvelope(last'.arg)
             /\ store' = store
             /\ app'.page = "mounted" /\ app'.savedUser = app.savedUser
             /\ app'.backupMessage = app.backupMessage /\ app'.timers = app.timers
      /\ (RestoreStep /\ last'.ret = Str("cancelled")) =>
           \E r \in BagToSet(app.reading) : Idle /\ FileReadWith(r, FALSE, {})
    ]_vars

\* the prompt was declined in the modal's restore flow, over a valid file
C25_Witness ==
  /\ last.op = "restore" /\ last.ret = Str("cancelled")
  /\ ModalShown /\ app.backupMessage = Null
  /\ store = last.pre /\ HoldsProfile(store[USER_PROFILE])

C25_WitnessWelcome ==
  /\ last.op = "restore" /\ last.ret = Str("cancelled")
  /\ WelcomeShown /\ app.backupMessage = Null
  /\ store = last.pre


MessageShown == app.backupMessage # Null
\* the file cannot be read, its text is not JSON or is not a valid envelope
FileRejected(file) == ~(file.readable /\ FileHoldsEnvelope(file.text))

\* C26 as stated: a restore step over a file that cannot be read, is not JSON
\* or fails envelope validation leaves the store unchanged and shows a backup
\* message, and every state in which a backup message is shown is followed
\* by one in which none is shown
C26_RejectedFileShowsMessage ==
  /\ [][ \A r \in BagToSet(app.reading) :
           (RestoreStep /\ Idle /\ FileRejected(r.file) /\ FileReadWith(r, TRUE, {})) =>
             /\ store' = store
             /\ MessageShown'
       ]_vars
  /\ (MessageShown ~> ~MessageShown)

\* C26: a restore step over such a file, and over no other, takes the
\* 'invalid' path, which leaves the store and the page as they were and,
\* when the form that started the read is still on the screen, shows the
\* message 'Invalid backup file' with a timeout; when that form was closed
\* in the meantime the step shows nothing; whenever a backup message is
\* shown a timeout for it is pending, and every state in which a backup
\* message is shown is followed by one in which none is shown
C26_RejectedFileMessageWhileFormOpen ==
  /\ [][ /\ \A r \in BagToSet(app.reading), c \in BOOLEAN, th \in ThrowChoices :
              (RestoreStep /\ Idle /\ FileReadWith(r, c, th)) =>
                /\ FileRejected(r.file) <=> last'.ret = Str("invalid")
                /\ FileRejected(r.file) =>
                     /\ store' = store /\ app'.page = "mounted"
                     /\ IF r.alive
                          THEN /\ app'.backupMessage = Str("Invalid backup file")
                               /\ app'.timers = app.timers + 1
                          ELSE /\ app'.backupMessage = app.backupMessage
                               /\ app'.timers = app.timers
         /\ MessageShown' => app'.timers > 0
       ]_vars
  /\ (MessageShown ~> ~MessageShown)

\* the message for a file that is not JSON is on the screen
C26_Witness ==
  /\ last.op = "restore" /\ last.ret = Str("invalid")
  /\ last.arg = Raw("not valid json")
  /\ app.backupMessage = Str("Invalid backup file") /\ app.timers > 0
  /\ store = last.pre

\* the read outlived its form: nothing is shown
C26_WitnessFormClosed ==
  /\ last.op = "restore" /\ last.ret = Str("invalid")
  /\ ~MessageShown /\ MainShown


\* a file's text has been requested and not delivered yet
ReadPending == app.reading # EmptyBag

C28_FileInputResetAfterRestore ==
  last.op = "restore" => app.fileInput = ""

\* the handler has finished with a file that is not JSON and the file input
\* of the form that is still on the screen keeps the selection
C28_SelectionKept ==
  /\ last.op = "restore" /\ last.ret = Str("invalid")
  /\ last.arg = Raw("not valid json")
  /\ WelcomeShown /\ app.fileInput = "chosen" /\ ~ReadPending

====
